---- MODULE Spec2Model ----
(***************************************************************************)
(* ddns6: a dynamic-DNS daemon for IPv6 hosts.  An update request carries  *)
(* a prefix; for every configured host the daemon splices the prefix with  *)
(* the host's interface identifier, asks the change cache whether the      *)
(* address changed, and only then calls the DNS provider.                  *)
(*                                                                         *)
(* Text that the program parses (the query's prefix, an interface-id      *)
(* token) is a sequence of one-character strings; text that the program   *)
(* only produces (hostnames, rendered list entries) is a string.          *)
(* An address (Ipv6Addr) is its 16 octets, most significant first.        *)
(***************************************************************************)
EXTENDS Integers, Sequences, FiniteSets, TLC

(***************************************************************************)
(* Result and Option values                                                *)
(***************************************************************************)
Ok(v) == [ok |-> TRUE, val |-> v]

Err(e) == [ok |-> FALSE, err |-> e]

\* A parser step that succeeded with value v, the input read up to (not
\* including) position p.
Some(v, p) == [ok |-> TRUE, val |-> v, pos |-> p]

None == [ok |-> FALSE]

(***************************************************************************)
(* u8 arithmetic                                                           *)
(***************************************************************************)
Pow2(n) == IF n = 0 THEN 1 ELSE IF n = 1 THEN 2 ELSE IF n = 2 THEN 4
           ELSE IF n = 3 THEN 8 ELSE IF n = 4 THEN 16 ELSE IF n = 5 THEN 32
           ELSE IF n = 6 THEN 64 ELSE IF n = 7 THEN 128 ELSE 256

\* a << n on a u8: the bits shifted past bit 7 are lost.
Shl8(a, n) == (a * Pow2(n)) % 256

\* !a on a u8.
Not8(a) == 255 - a

RECURSIVE AndBits(_, _, _)
AndBits(a, b, n) ==
    IF n = 0 THEN 0
    ELSE ((a % 2) * (b % 2)) + 2 * AndBits(a \div 2, b \div 2, n - 1)

\* a & b on u8.
And8(a, b) == AndBits(a, b, 8)

\* a | b on u8.
Or8(a, b) == a + b - And8(a, b)

(***************************************************************************)
(* Addresses                                                               *)
(***************************************************************************)
Octet == 0..255

ZeroAddr == [k \in 1..16 |-> 0]

\* Ipv6Addr from eight 16-bit groups (segments).
\* (CHOOSE out \in { F(v) : v \in {e} } : TRUE is F(e), e evaluated once.)
FromSegments(g) ==
    CHOOSE out \in
        { [k \in 1..16 |-> IF k % 2 = 1 THEN v[(k + 1) \div 2] \div 256
                           ELSE v[k \div 2] % 256] : v \in {g} } : TRUE

\* Ipv6Addr::segments.
Segments(a) == [i \in 1..8 |-> a[2 * i - 1] * 256 + a[2 * i]]

(***************************************************************************)
(* str::parse::<Ipv6Addr>(), as the standard library parses an address    *)
(* literal: hexadecimal groups separated by ':', at most one '::' standing *)
(* for one or more zero groups, and an optional dotted-quad IPv4 tail.     *)
(***************************************************************************)
LowerDigits == <<"0", "1", "2", "3", "4", "5", "6", "7", "8", "9",
                 "a", "b", "c", "d", "e", "f">>

UpperDigits == <<"0", "1", "2", "3", "4", "5", "6", "7", "8", "9",
                 "A", "B", "C", "D", "E", "F">>

IsDigit(c, radix) ==
    \E i \in 1..radix : LowerDigits[i] = c \/ UpperDigits[i] = c

\* char::to_digit, for a character that is a digit of the radix.
to_digit(c, radix) ==
    (CHOOSE i \in 1..radix : LowerDigits[i] = c \/ UpperDigits[i] = c) - 1

\* The digits at s[p..]: [val, count, pos], or count = -1 once more than
\* max_digits digits were read.
RECURSIVE ReadDigits(_, _, _, _, _, _)
ReadDigits(s, p, radix, max_digits, acc, count) ==
    IF p <= Len(s) /\ IsDigit(s[p], radix)
    THEN IF count + 1 > max_digits
         THEN [val |-> 0, count |-> -1, pos |-> p]
         ELSE ReadDigits(s, p + 1, radix, max_digits,
                         acc * radix + to_digit(s[p], radix), count + 1)
    ELSE [val |-> acc, count |-> count, pos |-> p]

\* The end of Parser::read_number: r is what ReadDigits read.
number_result(r, has_leading_zero, allow_zero_prefix, max_value) ==
    IF r.count <= 0 THEN None
    ELSE IF r.val > max_value THEN None
    ELSE IF ~allow_zero_prefix /\ has_leading_zero /\ r.count > 1 THEN None
    ELSE Some(r.val, r.pos)

\* Parser::read_number into an unsigned type of maximum max_value.
read_number(s, p, radix, max_digits, allow_zero_prefix, max_value) ==
    number_result(ReadDigits(s, p, radix, max_digits, 0, 0),
                  p <= Len(s) /\ s[p] = "0", allow_zero_prefix, max_value)

\* Parser::read_given_char: the position after c, or 0 when s[p] is not c.
read_given_char(s, p, c) == IF p <= Len(s) /\ s[p] = c THEN p + 1 ELSE 0

\* Parser::read_separator: inner is read at q, the position after the
\* separator (0 when the separator is missing).
after_separator(q, inner) == IF q = 0 THEN None ELSE inner

\* Parser::read_ipv4_addr: four decimal octets separated by '.', no leading
\* zeros.
RECURSIVE ReadV4Octets(_, _, _, _)
RECURSIVE V4Octet(_, _, _, _)
V4Octet(s, i, acc, n) ==
    IF ~n.ok THEN None
    ELSE ReadV4Octets(s, n.pos, i + 1, Append(acc, n.val))

ReadV4Separated(s, q, i, acc) ==
    CHOOSE out \in
        { V4Octet(s, i, acc, n) :
            n \in {after_separator(q, read_number(s, q, 10, 3, FALSE, 255))} } :
        TRUE

ReadV4Octets(s, p, i, acc) ==
    IF i = 4 THEN Some(acc, p)
    ELSE ReadV4Separated(s, IF i > 0 THEN read_given_char(s, p, ".") ELSE p,
                         i, acc)

read_ipv4_addr(s, p) == ReadV4Octets(s, p, 0, <<>>)

\* read_groups of Parser::read_ipv6_addr: up to limit groups from s[p..], the
\* last two possibly given as an embedded IPv4 address.
\* [groups, ipv4, pos].
RECURSIVE read_groups(_, _, _, _, _)
RECURSIVE GroupAt(_, _, _, _, _, _, _)
GroupAt(s, p, limit, i, acc, v4, g) ==
    IF v4.ok
    THEN [groups |-> acc \o << v4.val[1] * 256 + v4.val[2],
                               v4.val[3] * 256 + v4.val[4] >>,
          ipv4 |-> TRUE, pos |-> v4.pos]
    ELSE IF g.ok
    THEN read_groups(s, g.pos, limit, i + 1, Append(acc, g.val))
    ELSE [groups |-> acc, ipv4 |-> FALSE, pos |-> p]

GroupSeparated(s, p, q, limit, i, acc) ==
    CHOOSE out \in
        { GroupAt(s, p, limit, i, acc, x[1], x[2]) :
            x \in {<<IF i < limit - 1
                     THEN after_separator(q, read_ipv4_addr(s, q))
                     ELSE None,
                     after_separator(q, read_number(s, q, 16, 4, TRUE,
                                                    65535))>>} } : TRUE

read_groups(s, p, limit, i, acc) ==
    IF i >= limit THEN [groups |-> acc, ipv4 |-> FALSE, pos |-> p]
    ELSE GroupSeparated(s, p, IF i > 0 THEN read_given_char(s, p, ":") ELSE p,
                        limit, i, acc)

\* The end of Parser::read_ipv6_addr: the head and the tail put together.
\* The whole of s must have been consumed (parse_with).
concat_head_tail(s, head, tail) ==
    IF tail.pos # Len(s) + 1 THEN Err("AddrParseError")
    ELSE Ok(FromSegments(
            [i \in 1..8 |->
                IF i <= Len(head.groups) THEN head.groups[i]
                ELSE IF i > 8 - Len(tail.groups)
                THEN tail.groups[i - (8 - Len(tail.groups))]
                ELSE 0]))

\* After the head: '::' and the tail, unless the head was all eight groups.
after_head(s, head, c1) ==
    IF Len(head.groups) = 8
    THEN IF head.pos = Len(s) + 1 THEN Ok(FromSegments(head.groups))
         ELSE Err("AddrParseError")
    ELSE IF head.ipv4 \/ c1 = 0 \/ read_given_char(s, c1, ":") = 0
    THEN Err("AddrParseError")
    ELSE CHOOSE out \in
            { concat_head_tail(s, head, tail) :
                tail \in {read_groups(s, c1 + 1, 8 - (Len(head.groups) + 1),
                                      0, <<>>)} } : TRUE

after_head_colon(s, head) ==
    CHOOSE out \in
        { after_head(s, h, read_given_char(s, h.pos, ":")) : h \in {head} } :
        TRUE

\* Parser::read_ipv6_addr under parse_with.
parse_ipv6(s) == after_head_colon(s, read_groups(s, 1, 8, 0, <<>>))

(***************************************************************************)
(* Display of an Ipv6Addr (format!("{}", addr)), as the standard library  *)
(* writes it: lower-case groups without leading zeros, the first longest  *)
(* run of two or more zero groups written '::', an IPv4-mapped address    *)
(* written ::ffff:a.b.c.d.                                                 *)
(***************************************************************************)
RECURSIVE HexStr(_)
HexStr(n) == IF n < 16 THEN LowerDigits[n + 1]
             ELSE HexStr(n \div 16) \o LowerDigits[(n % 16) + 1]

RECURSIVE DecStr(_)
DecStr(n) == IF n < 10 THEN LowerDigits[n + 1]
             ELSE DecStr(n \div 10) \o LowerDigits[(n % 10) + 1]

\* fmt_subslice: the groups g[from..to] joined by ':'.
RECURSIVE fmt_subslice(_, _, _)
fmt_subslice(g, from, to) ==
    IF from > to THEN ""
    ELSE IF from = to THEN HexStr(g[from])
    ELSE HexStr(g[from]) \o ":" \o fmt_subslice(g, from + 1, to)

\* Whether groups g[start .. start+len-1] are all zero.
ZeroRun(g, start, len) == \A i \in start..(start + len - 1) : g[i] = 0

\* The length of the longest run of zero groups.
LongestLen(g) ==
    CHOOSE n \in 0..8 :
        /\ \E st \in 1..(9 - n) : ZeroRun(g, st, n)
        /\ \A m \in (n + 1)..8 : ~\E st \in 1..(9 - m) : ZeroRun(g, st, m)

\* The start of the first run of length n.
LongestStart(g, n) ==
    CHOOSE st \in 1..(9 - n) :
        /\ ZeroRun(g, st, n)
        /\ \A e \in 1..(st - 1) : ~ZeroRun(g, e, n)

to_ipv4_mapped(a) ==
    (\A k \in 1..10 : a[k] = 0) /\ a[11] = 255 /\ a[12] = 255

\* The groups g written with the run of n zero groups at st as '::'.
fmt_compressed(g, st, n) ==
    IF n > 1
    THEN fmt_subslice(g, 1, st - 1) \o "::" \o fmt_subslice(g, st + n, 8)
    ELSE fmt_subslice(g, 1, 8)

fmt_segments(g, n) == fmt_compressed(g, LongestStart(g, n), n)

addr_to_string(a) ==
    IF to_ipv4_mapped(a)
    THEN "::ffff:" \o DecStr(a[13]) \o "." \o DecStr(a[14]) \o "."
                   \o DecStr(a[15]) \o "." \o DecStr(a[16])
    ELSE CHOOSE out \in
            { fmt_segments(x[1], x[2]) :
                x \in { <<g, LongestLen(g)>> : g \in {Segments(a)} } } : TRUE

(***************************************************************************)
(* Ipv6Prefix (ipv6.rs)                                                    *)
(***************************************************************************)
\* The address kept as given, no bit cleared.
network_unmasked(addr, prefix_len) == addr

\* Ipv6Net::network: the address with every bit at or beyond prefix_len
\* cleared.
network(addr, prefix_len) ==
    [k \in 1..16 |->
        IF 8 * k <= prefix_len THEN addr[k]
        ELSE IF 8 * (k - 1) >= prefix_len THEN 0
        ELSE And8(addr[k], Shl8(255, 8 - (prefix_len % 8)))]

\* from_address refusing the length 128 too.
from_address_rejects_128(addr, prefix_len) ==
    IF prefix_len >= 128
    THEN Err("Ipv6Parse")
    ELSE Ok([addr |-> network(addr, prefix_len), prefix_len |-> prefix_len])

\* from_address building a prefix of any length.
from_address_any_length(addr, prefix_len) ==
    Ok([addr |-> network(addr, prefix_len), prefix_len |-> prefix_len])

\* Ipv6Prefix::from_address.  prefix_len is a u8.
from_address(addr, prefix_len) ==
    IF prefix_len > 128
    THEN Err("Ipv6Parse")
    ELSE Ok([addr |-> network(addr, prefix_len), prefix_len |-> prefix_len])

\* Ipv6Prefix::extract_from_address.
extract_from_address(addr, default_prefix_len) ==
    from_address(addr, default_prefix_len)

\* The literals parse_interface_id puts in front of a token.
DocPlaceholder == <<"2", "0", "0", "1", ":", "d", "b", "8", ":", ":">>

MappedPlaceholder == <<":", ":", "f", "f", "f", "f", ":">>

\* parse_interface_id trying "::ffff:" before "2001:db8::".
first_parsed_mapped_before_doc(full, doc, mapped) ==
    IF full.ok THEN Ok(full.val)
    ELSE IF mapped.ok THEN Ok(mapped.val)
    ELSE IF doc.ok THEN Ok(doc.val)
    ELSE Err("InvalidInterfaceId")

\* parse_interface_id: the token as an address literal, then after
\* "2001:db8::", then after "::ffff:"; the first that parses.
first_parsed(full, doc, mapped) ==
    IF full.ok THEN Ok(full.val)
    ELSE IF doc.ok THEN Ok(doc.val)
    ELSE IF mapped.ok THEN Ok(mapped.val)
    ELSE Err("InvalidInterfaceId")

parse_interface_id(iid) ==
    first_parsed(parse_ipv6(iid), parse_ipv6(DocPlaceholder \o iid),
                 parse_ipv6(MappedPlaceholder \o iid))

\* The boundary byte with the two masks exchanged.
blend_swapped(prefix_byte, iid_byte, mask) ==
    Or8(And8(prefix_byte, Not8(mask)), And8(iid_byte, mask))

\* The byte at the boundary: the prefix's bits under mask, the interface
\* identifier's bits under !mask.
blend(prefix_byte, iid_byte, mask) ==
    Or8(And8(prefix_byte, mask), And8(iid_byte, Not8(mask)))

\* The splice copying whole bytes only: the boundary byte is the interface
\* identifier's.
splice_without_blend(prefix_bytes, iid_bytes, prefix_len, boundary) ==
    [k \in 1..16 |->
        IF k - 1 < boundary THEN prefix_bytes[k] ELSE iid_bytes[k]]

\* The splice of combine_with_interface_id on octets; index k is the byte
\* index k - 1 of the source.
splice(prefix_bytes, iid_bytes, prefix_len, boundary) ==
    [k \in 1..16 |->
        IF k - 1 < boundary THEN prefix_bytes[k]
        ELSE IF prefix_len % 8 # 0 /\ k - 1 = boundary
        THEN blend(prefix_bytes[k], iid_bytes[k],
                   Shl8(Not8(0), 8 - (prefix_len % 8)))
        ELSE iid_bytes[k]]

\* The byte indices combine_with_interface_id reads or writes in its arrays
\* of 16 bytes: those of [..boundary], then [boundary] and [boundary + 1..]
\* when the length is no multiple of 8, [boundary..] when it is.  The slice
\* [..boundary] reaches up to boundary - 1 whatever the array holds.
touched(prefix_len, boundary) ==
    (0..(boundary - 1)) \cup
        (IF prefix_len % 8 # 0
         THEN {boundary} \cup ((boundary + 1)..15)
         ELSE boundary..15)

combine(self, iid_addr) ==
    IF ~iid_addr.ok THEN Err(iid_addr.err)
    ELSE Ok(splice(self.addr, iid_addr.val, self.prefix_len,
                   self.prefix_len \div 8))

\* Ipv6Prefix::combine_with_interface_id.
combine_with_interface_id(self, interface_id) ==
    CHOOSE out \in
        { combine(self, iid_addr) :
            iid_addr \in {parse_interface_id(interface_id)} } : TRUE

(***************************************************************************)
(* StateCache (state.rs): a map from hostname to HostState.  A HostState   *)
(* is modelled by its ipv6_address; last_updated is written and never read.*)
(***************************************************************************)
\* StateCache::new.
cache_new == [h \in {} |-> [ipv6_address |-> ZeroAddr]]

\* has_changed with the None arm answering false.
has_changed_absent_unchanged(c, hostname, new_address) ==
    IF hostname \in DOMAIN c
    THEN c[hostname].ipv6_address # new_address
    ELSE FALSE

\* StateCache::has_changed.
has_changed(c, hostname, new_address) ==
    IF hostname \in DOMAIN c
    THEN c[hostname].ipv6_address # new_address
    ELSE TRUE

\* update keeping the entry a hostname already has.
update_keeps_existing(c, hostname, ipv6_address) ==
    [h \in (DOMAIN c) \cup {hostname} |->
        IF h \in DOMAIN c THEN c[h] ELSE [ipv6_address |-> ipv6_address]]

\* update dropping the entries of the other hostnames.
update_clears_others(c, hostname, ipv6_address) ==
    [h \in {hostname} |-> [ipv6_address |-> ipv6_address]]

\* StateCache::update: HashMap::insert.
update(c, hostname, ipv6_address) ==
    [h \in (DOMAIN c) \cup {hostname} |->
        IF h = hostname THEN [ipv6_address |-> ipv6_address] ELSE c[h]]

\* StateCache::remove: HashMap::remove.
remove(c, hostname) == [h \in (DOMAIN c) \ {hostname} |-> c[h]]

(***************************************************************************)
(* DynDns2Response and the aggregation at the end of handle_update         *)
(***************************************************************************)
\* [String]::join.
RECURSIVE join(_, _)
join(v, sep) ==
    IF Len(v) = 0 THEN ""
    ELSE IF Len(v) = 1 THEN v[1]
    ELSE v[1] \o sep \o join(Tail(v), sep)

Good(hosts) == [kind |-> "Good", hosts |-> hosts]

NoChg(hosts) == [kind |-> "NoChg", hosts |-> hosts]

PartialSuccess(success, failed) ==
    [kind |-> "PartialSuccess", success |-> success, failed |-> failed]

Error(msg) == [kind |-> "Error", msg |-> msg]

\* format!("{}={}", host.hostname, final_address).
format_entry(hostname, final_address) ==
    hostname \o "=" \o addr_to_string(final_address)

\* The aggregation reporting a partial success only when no host is unchanged.
aggregate_partial_needs_no_unchanged(updated_hosts, unchanged_hosts, failed_hosts) ==
    IF failed_hosts # <<>> /\ updated_hosts # <<>> /\ unchanged_hosts = <<>>
    THEN PartialSuccess(updated_hosts, failed_hosts)
    ELSE IF failed_hosts # <<>>
    THEN Error("Failed to update: " \o join(failed_hosts, ", "))
    ELSE IF updated_hosts # <<>>
    THEN Good(updated_hosts)
    ELSE NoChg(unchanged_hosts)

\* The aggregation with the test for failures ahead of the one for a
\* partial success.
aggregate_error_first(updated_hosts, unchanged_hosts, failed_hosts) ==
    IF failed_hosts # <<>>
    THEN Error("Failed to update: " \o join(failed_hosts, ", "))
    ELSE IF failed_hosts # <<>> /\ updated_hosts # <<>>
    THEN PartialSuccess(updated_hosts, failed_hosts)
    ELSE IF updated_hosts # <<>>
    THEN Good(updated_hosts)
    ELSE NoChg(unchanged_hosts)

\* The aggregation listing the unchanged hosts in a Good response too.
aggregate_good_lists_unchanged(updated_hosts, unchanged_hosts, failed_hosts) ==
    IF failed_hosts # <<>> /\ updated_hosts # <<>>
    THEN PartialSuccess(updated_hosts, failed_hosts)
    ELSE IF failed_hosts # <<>>
    THEN Error("Failed to update: " \o join(failed_hosts, ", "))
    ELSE IF updated_hosts # <<>>
    THEN Good(updated_hosts \o unchanged_hosts)
    ELSE NoChg(unchanged_hosts)

\* The four returns that end handle_update, in the code's order.
aggregate(updated_hosts, unchanged_hosts, failed_hosts) ==
    IF failed_hosts # <<>> /\ updated_hosts # <<>>
    THEN PartialSuccess(updated_hosts, failed_hosts)
    ELSE IF failed_hosts # <<>>
    THEN Error("Failed to update: " \o join(failed_hosts, ", "))
    ELSE IF updated_hosts # <<>>
    THEN Good(updated_hosts)
    ELSE NoChg(unchanged_hosts)

\* into_response signalling an Error through the status line.
into_response_error_status(self) ==
    IF self.kind = "Good"
    THEN [status |-> 200, body |-> "good " \o join(self.hosts, ", ")]
    ELSE IF self.kind = "NoChg"
    THEN [status |-> 200, body |-> "nochg " \o join(self.hosts, ", ")]
    ELSE IF self.kind = "PartialSuccess"
    THEN [status |-> 200,
          body |-> "partial success: " \o join(self.success, ", ")
                   \o " | failed: " \o join(self.failed, ", ")]
    ELSE IF self.kind = "BadAgent" THEN [status |-> 200, body |-> "badagent"]
    ELSE IF self.kind = "Abuse" THEN [status |-> 200, body |-> "abuse"]
    ELSE [status |-> 500, body |-> "911 " \o self.msg]

\* IntoResponse for DynDns2Response: the status and the body.
into_response(self) ==
    IF self.kind = "Good"
    THEN [status |-> 200, body |-> "good " \o join(self.hosts, ", ")]
    ELSE IF self.kind = "NoChg"
    THEN [status |-> 200, body |-> "nochg " \o join(self.hosts, ", ")]
    ELSE IF self.kind = "PartialSuccess"
    THEN [status |-> 200,
          body |-> "partial success: " \o join(self.success, ", ")
                   \o " | failed: " \o join(self.failed, ", ")]
    ELSE IF self.kind = "BadAgent" THEN [status |-> 200, body |-> "badagent"]
    ELSE IF self.kind = "Abuse" THEN [status |-> 200, body |-> "abuse"]
    ELSE [status |-> 200, body |-> "911 " \o self.msg]

\* extract_ipv6_address: params.prefix parsed as an address literal.
map_err(parsed, e) == IF parsed.ok THEN Ok(parsed.val) ELSE Err(e)

extract_ipv6_address(params) == map_err(parse_ipv6(params.prefix), "Ipv6Parse")

(***************************************************************************)
(* Inputs: the configuration file's hosts and the queries clients send     *)
(***************************************************************************)
\* The most hosts a configuration of the model names.
MaxHosts == 3

\* The most requests the server handles at the same time.
MaxTasks == 2

Tasks == 1..MaxTasks

HostNames == <<"nas.example.com", "pc.example.com", "tv.example.com",
               "cam.example.com", "pi.example.com">>

\* ::1, ::a1:2, the bare token 1f, ::1 again, ::2.
InterfaceIds == << <<":", ":", "1">>,
                   <<":", ":", "a", "1", ":", "2">>,
                   <<"1", "f">>,
                   <<":", ":", "1">>,
                   <<":", ":", "2">> >>

HostMapping(i) ==
    [hostname |-> HostNames[i], interface_id |-> InterfaceIds[i]]

\* The validation accepting every token.
validate_interface_id_any(iid) == TRUE

\* Config::validate_interface_id.
validate_interface_id(iid) ==
    parse_ipv6(iid).ok \/ parse_ipv6(DocPlaceholder \o iid).ok

\* Config::validate, the part about hosts.
validate(config_hosts) ==
    /\ Len(config_hosts) # 0
    /\ \A i \in 1..Len(config_hosts) :
          /\ config_hosts[i].hostname # ""
          /\ validate_interface_id(config_hosts[i].interface_id)
    /\ \A i, j \in 1..Len(config_hosts) :
          i # j => config_hosts[i].hostname # config_hosts[j].hostname

\* The host lists a configuration file may hold.
ConfigFiles == { [i \in 1..n |-> HostMapping(i)] : n \in 0..MaxHosts }

\* The prefix parameter of a request: 2001:db8:1:2::1, 2001:db8:1:2::9 (the
\* same /64), 2001:db8:1:3::1, and two that are no address literal.
Queries ==
    { <<"2","0","0","1",":","d","b","8",":","1",":","2",":",":","1">>,
      <<"2","0","0","1",":","d","b","8",":","1",":","2",":",":","9">>,
      <<"2","0","0","1",":","d","b","8",":","1",":","3",":",":","1">>,
      <<"n","o","t","-","a","n","-","i","p">>,
      <<"2","0","0","1",":","d","b","8",":","1",":","2",":",":","/","6","4">> }

(***************************************************************************)
(* State                                                                   *)
(***************************************************************************)
VARIABLES
    hosts,         \* state.config.hosts
    cache,         \* state.state_cache
    task,          \* per request task: where handle_update stands, its locals
    entry_cache,   \* history: the cache when the request in flight began
    last_failed,   \* history: per hostname, the address of its last failed
                   \* provider call, until the hostname's entry is written
    history,       \* history: per hostname ever written, "recorded" or,
                   \* once removed and not written since, "removed"
    observed,      \* the last has_changed call made from outside and its
                   \* result; tick alternates with every such call
    written,       \* history: per hostname with an entry, the address of the
                   \* last update call executed for it
    args,          \* the arguments of a call of an Ipv6Prefix function
    result,        \* what the functions called on args returned
    lock,          \* the RwLock of the StateCache: who holds it, who waits
    caller,        \* per caller of the StateCache, the method it is in
    provider,      \* history: per hostname, the address of the last
                   \* update_aaaa_record call that returned Ok
    accepted,      \* history, kept under SpecRace: the <<hostname, address>>
                   \* of every update_aaaa_record call that returned Ok
    clean,         \* history: the prefix of the last request answered, when
                   \* no host of it failed
    zone,          \* the AAAA records of the Cloudflare zone, per name
    upsert         \* the call of update_aaaa_record in progress

\* What the handlers of the server never touch.
apart == <<args, result, lock, caller, zone, upsert>>

\* What is known of the provider calls and of the requests answered.
ledger == <<provider, accepted, clean>>

vars == <<hosts, cache, task, entry_cache, last_failed, history, observed,
          written, args, result, lock, caller, provider, accepted, clean,
          zone, upsert>>

NoAddr == <<>>

NoPrefix == <<>>

NoResponse == <<>>

\* No snapshot of the cache: a map no cache equals ("none" is no hostname).
NoSnapshot == [h \in {"none"} |-> [ipv6_address |-> ZeroAddr]]

\* No Ipv6Prefix function is being called.
NoArgs == [addr |-> ZeroAddr, prefix_len |-> 0, interface_id |-> <<>>]

NoResult == [step |-> "none"]

\* The RwLock with no holder and nobody waiting.
Unlocked == [readers |-> {}, writer |-> {}, waiters |-> <<>>]

\* A caller that is in no method of the StateCache.
Outside == [pc |-> "outside", method |-> "", hostname |-> "",
            ipv6_address |-> ZeroAddr]

\* A zone with no AAAA record.
NoRecords == [h \in {} |-> <<>>]

\* update_aaaa_record is not being called.
NoCall == [pc |-> "idle", hostname |-> "", addr |-> ZeroAddr, found |-> None,
           returned |-> "none"]

\* A task that is handling no request.
Idle == [pc |-> "idle", params |-> <<>>, prefix |-> NoPrefix, idx |-> 0,
         final_address |-> NoAddr, updated_hosts |-> <<>>,
         unchanged_hosts |-> <<>>, failed_hosts |-> <<>>,
         response |-> NoResponse]

AllIdle == \A t \in Tasks : task[t].pc = "idle"

\* create_server, on a configuration Config::from_file accepted.
Init ==
    /\ hosts \in ConfigFiles
    /\ validate(hosts)
    /\ cache = cache_new
    /\ task = [t \in Tasks |-> Idle]
    /\ entry_cache = NoSnapshot
    /\ last_failed = [h \in {} |-> NoAddr]
    /\ history = [h \in {} |-> ""]
    /\ observed = [hostname |-> "", new_address |-> ZeroAddr, result |-> FALSE,
                   tick |-> 0]
    /\ written = [h \in {} |-> NoAddr]
    /\ args = NoArgs
    /\ result = NoResult
    /\ lock = Unlocked
    /\ caller = [t \in Tasks |-> Outside]
    /\ provider = [h \in {} |-> NoAddr]
    /\ accepted = {}
    /\ clean = NoPrefix
    /\ zone = NoRecords
    /\ upsert = NoCall

\* The history of hostname set to what.
noted(hist, hostname, what) ==
    [h \in (DOMAIN hist) \cup {hostname} |->
        IF h = hostname THEN what ELSE hist[h]]

(***************************************************************************)
(* handle_update (dyndns2.rs), one action per stretch between two awaits   *)
(***************************************************************************)
\* The loop leaving at the first failed host.
next_host_abort_on_failure(r) ==
    IF r.idx >= Len(hosts) \/ r.failed_hosts # <<>>
    THEN [r EXCEPT !.pc = "done",
                   !.final_address = NoAddr,
                   !.response = aggregate(r.updated_hosts, r.unchanged_hosts,
                                          r.failed_hosts)]
    ELSE [r EXCEPT !.pc = "check", !.idx = r.idx + 1, !.final_address = NoAddr]

\* `continue`, or the end of an iteration of `for host in &state.config.hosts`:
\* the next host, or past the last one the aggregation and the return.
next_host(r) ==
    IF r.idx >= Len(hosts)
    THEN [r EXCEPT !.pc = "done",
                   !.final_address = NoAddr,
                   !.response = aggregate(r.updated_hosts, r.unchanged_hosts,
                                          r.failed_hosts)]
    ELSE [r EXCEPT !.pc = "check", !.idx = r.idx + 1, !.final_address = NoAddr]

\* The request arrives: the prefix parameter is parsed and the network prefix
\* extracted; a request that fails here returns at once.
with_prefix(r, prefix) ==
    IF ~prefix.ok
    THEN [r EXCEPT !.pc = "done",
                   !.response = Error("Failed to extract prefix")]
    ELSE IF Len(hosts) = 0
    THEN [r EXCEPT !.pc = "done", !.response = aggregate(<<>>, <<>>, <<>>)]
    ELSE [r EXCEPT !.pc = "check", !.prefix = prefix.val, !.idx = 1]

\* The request going on with the unspecified address when the prefix
\* parameter does not parse.
with_client_default(r, client_ipv6) ==
    with_prefix(r, extract_from_address(
                       IF client_ipv6.ok THEN client_ipv6.val ELSE ZeroAddr, 64))

\* The request ending without a response when the prefix parameter does
\* not parse.
with_client_no_response(r, client_ipv6) ==
    IF ~client_ipv6.ok
    THEN [r EXCEPT !.pc = "failed"]
    ELSE with_prefix(r, extract_from_address(client_ipv6.val, 64))

with_client(r, client_ipv6) ==
    IF ~client_ipv6.ok
    THEN [r EXCEPT !.pc = "done", !.response = Error("Invalid IPv6 address")]
    ELSE with_prefix(r, extract_from_address(client_ipv6.val, 64))

enter(params) ==
    with_client([Idle EXCEPT !.params = params], extract_ipv6_address(params))

Begin(t, q) ==
    /\ task[t].pc = "idle"
    /\ task' = [task EXCEPT ![t] = enter([prefix |-> q])]
    /\ entry_cache' = IF AllIdle THEN cache ELSE NoSnapshot
    /\ UNCHANGED <<hosts, cache, last_failed, history, observed, written,
                   apart, ledger>>

\* The loop body calling the provider whatever the cache answers.
classify_ignores_cache(r, c, host, final_address) ==
    IF ~final_address.ok
    THEN next_host([r EXCEPT !.failed_hosts = Append(@, host.hostname)])
    ELSE [r EXCEPT !.pc = "call", !.final_address = final_address.val]

\* The loop body listing an unchanged host by its hostname alone.
classify_unchanged_without_address(r, c, host, final_address) ==
    IF ~final_address.ok
    THEN next_host([r EXCEPT !.failed_hosts = Append(@, host.hostname)])
    ELSE IF ~has_changed(c, host.hostname, final_address.val)
    THEN next_host([r EXCEPT !.unchanged_hosts = Append(@, host.hostname)])
    ELSE [r EXCEPT !.pc = "call", !.final_address = final_address.val]

\* The loop body putting an unchanged host in front of the list.
classify_unchanged_in_front(r, c, host, final_address) ==
    IF ~final_address.ok
    THEN next_host([r EXCEPT !.failed_hosts = Append(@, host.hostname)])
    ELSE IF ~has_changed(c, host.hostname, final_address.val)
    THEN next_host([r EXCEPT !.unchanged_hosts =
                       <<format_entry(host.hostname, final_address.val)>>
                           \o @])
    ELSE [r EXCEPT !.pc = "call", !.final_address = final_address.val]

\* The top of the loop body for hosts[idx], up to the provider call: the
\* address is combined and the cache asked whether it changed.
classify(r, c, host, final_address) ==
    IF ~final_address.ok
    THEN next_host([r EXCEPT !.failed_hosts = Append(@, host.hostname)])
    ELSE IF ~has_changed(c, host.hostname, final_address.val)
    THEN next_host([r EXCEPT !.unchanged_hosts =
                       Append(@, format_entry(host.hostname,
                                              final_address.val))])
    ELSE [r EXCEPT !.pc = "call", !.final_address = final_address.val]

check(r, c) ==
    CHOOSE out \in
        { classify(r, c, hosts[r.idx], final_address) :
            final_address \in
                {combine_with_interface_id(r.prefix,
                                           hosts[r.idx].interface_id)} } : TRUE

Check(t) ==
    /\ task[t].pc = "check"
    /\ task' = [task EXCEPT ![t] = check(task[t], cache)]
    /\ UNCHANGED <<hosts, cache, entry_cache, last_failed, history, observed, written,
                   apart, ledger>>

\* update_aaaa_record returns Ok: the task goes on to write the cache.
returns_ok(t) ==
    /\ task[t].pc = "call"
    /\ task' = [task EXCEPT ![t].pc = "record"]
    /\ provider' = noted(provider, hosts[task[t].idx].hostname,
                         task[t].final_address)
    /\ UNCHANGED <<hosts, cache, entry_cache, last_failed, history, observed,
                   written, apart, clean>>

ProviderOk(t) == returns_ok(t) /\ accepted' = accepted

\* The same step where the history of all the calls that returned Ok is kept.
ProviderOkNoted(t) ==
    /\ returns_ok(t)
    /\ accepted' = accepted \cup {<<hosts[task[t].idx].hostname,
                                     task[t].final_address>>}

\* The Err arm dropping the hostname's entry.
cache_on_failure_removes(c, hostname, final_address) == remove(c, hostname)

\* The Err arm recording the address all the same.
cache_on_failure_writes(c, hostname, final_address) ==
    update(c, hostname, final_address)

\* The Err arm of the match on update_aaaa_record: the cache after it.
cache_on_failure(c, hostname, final_address) == c

\* update_aaaa_record returns Err.
ProviderErr(t) ==
    LET r == task[t]
        hostname == hosts[r.idx].hostname
    IN  /\ r.pc = "call"
        /\ task' = [task EXCEPT ![t] =
                       next_host([r EXCEPT !.failed_hosts = Append(@, hostname)])]
        /\ cache' = cache_on_failure(cache, hostname, r.final_address)
        /\ last_failed' = [h \in (DOMAIN last_failed) \cup {hostname} |->
                              IF h = hostname THEN r.final_address
                              ELSE last_failed[h]]
        /\ UNCHANGED <<hosts, entry_cache, history, observed, written,
                       apart, ledger>>

\* The Ok arm: state_cache.update, then the push to updated_hosts.
Record(t) ==
    LET r == task[t]
        hostname == hosts[r.idx].hostname
    IN  /\ r.pc = "record"
        /\ cache' = update(cache, hostname, r.final_address)
        /\ task' = [task EXCEPT ![t] =
                       next_host([r EXCEPT !.updated_hosts =
                           Append(@, format_entry(hostname, r.final_address))])]
        /\ last_failed' = [h \in (DOMAIN last_failed) \ {hostname} |->
                              last_failed[h]]
        /\ history' = noted(history, hostname, "recorded")
        /\ written' = noted(written, hostname, r.final_address)
        /\ UNCHANGED <<hosts, entry_cache, observed, apart, ledger>>

\* The response is sent and the task ends.
Respond(t) ==
    /\ task[t].pc = "done"
    /\ task' = [task EXCEPT ![t] = Idle]
    /\ entry_cache' = NoSnapshot
    /\ clean' = IF task[t].failed_hosts = <<>> THEN task[t].prefix ELSE NoPrefix
    /\ UNCHANGED <<hosts, cache, last_failed, history, observed, written,
                   apart, provider, accepted>>

\* The server: requests are handled concurrently, one task each.
Next ==
    \E t \in Tasks :
        \/ \E q \in Queries : Begin(t, q)
        \/ Check(t)
        \/ ProviderOk(t)
        \/ ProviderErr(t)
        \/ Record(t)
        \/ Respond(t)

Spec == Init /\ [][Next]_vars

\* The same server when requests do not overlap: a request arrives only when
\* none is in flight.
NextSeq ==
    \E t \in Tasks :
        \/ \E q \in Queries : AllIdle /\ Begin(t, q)
        \/ Check(t)
        \/ ProviderOk(t)
        \/ ProviderErr(t)
        \/ Record(t)
        \/ Respond(t)

SpecSeq == Init /\ [][NextSeq]_vars

\* Requests that race: two hosts are configured, every task handles one
\* request, and the requests carry one of two prefixes, 2001:db8:1:2::/64 and
\* 2001:db8:1:3::/64. The history of the provider's answers is kept.
RaceQueries ==
    { <<"2","0","0","1",":","d","b","8",":","1",":","2",":",":","1">>,
      <<"2","0","0","1",":","d","b","8",":","1",":","3",":",":","1">> }

InitRace ==
    /\ Init
    /\ hosts = <<HostMapping(1), HostMapping(2)>>

NextRace ==
    \E t \in Tasks :
        \/ \E q \in RaceQueries : Begin(t, q)
        \/ Check(t)
        \/ ProviderOkNoted(t)
        \/ ProviderErr(t)
        \/ Record(t)

SpecRace == InitRace /\ [][NextRace]_vars

\* What the runtime guarantees: a task that is ready to run is polled, so
\* every stretch of handle_update between two awaits is eventually executed.
HandlerFair ==
    \A t \in Tasks :
        WF_vars(Check(t)) /\ WF_vars(Record(t)) /\ WF_vars(Respond(t))

\* The server whose provider may never answer: CloudflareClient::new builds
\* its Client without a timeout and handle_update awaits update_aaaa_record
\* as it is, so nothing but the provider's answer ends the await.
SpecSilent == Init /\ [][NextSeq]_vars /\ HandlerFair

\* Every provider call returns, with Ok or with Err.
ProviderFair == \A t \in Tasks : WF_vars(ProviderOk(t) \/ ProviderErr(t))

\* The server with two hosts whose provider answers every call.
SpecAnswered == InitRace /\ [][NextSeq]_vars /\ HandlerFair /\ ProviderFair

(***************************************************************************)
(* StateCache called directly, as its unit tests call it                   *)
(***************************************************************************)
\* The most addresses a caller of the cache passes.
MaxAddrs == 2

\* 2001:db8:1:2::k.
Addr(k) == FromSegments(<<8193, 3512, 1, 2, 0, 0, 0, k>>)

CacheAddrs == { Addr(k) : k \in 1..MaxAddrs }

CacheKeys == { HostNames[i] : i \in 1..MaxHosts }

CacheUpdate(h, a) ==
    /\ cache' = update(cache, h, a)
    /\ history' = noted(history, h, "recorded")
    /\ written' = noted(written, h, a)
    /\ UNCHANGED <<hosts, task, entry_cache, last_failed, observed,
                   apart, ledger>>

CacheRemove(h) ==
    /\ cache' = remove(cache, h)
    /\ history' = IF h \in DOMAIN history THEN noted(history, h, "removed")
                  ELSE history
    /\ written' = [k \in (DOMAIN written) \ {h} |-> written[k]]
    /\ UNCHANGED <<hosts, task, entry_cache, last_failed, observed,
                   apart, ledger>>

\* has_changed recording the address it was asked about when the hostname
\* has no entry.
CacheHasChanged_recording(h, a) ==
    /\ observed' = [hostname |-> h, new_address |-> a,
                    result |-> has_changed(cache, h, a),
                    tick |-> 1 - observed.tick]
    /\ cache' = IF h \in DOMAIN cache THEN cache ELSE update(cache, h, a)
    /\ UNCHANGED <<hosts, task, entry_cache, last_failed, history, written,
                   apart, ledger>>

\* has_changed called from outside: the read guard gives no way to write.
CacheHasChanged(h, a) ==
    /\ observed' = [hostname |-> h, new_address |-> a,
                    result |-> has_changed(cache, h, a),
                    tick |-> 1 - observed.tick]
    /\ cache' = cache
    /\ UNCHANGED <<hosts, task, entry_cache, last_failed, history, written,
                   apart, ledger>>

NextCache ==
    \E h \in CacheKeys :
        \/ \E a \in CacheAddrs : CacheUpdate(h, a)
        \/ CacheRemove(h)
        \/ \E a \in CacheAddrs : CacheHasChanged(h, a)

SpecCache == Init /\ [][NextCache]_vars

(***************************************************************************)
(* StateCache behind its RwLock (state.rs): every method awaits the read   *)
(* or the write guard, runs its body and drops the guard on return.  The   *)
(* lock grants in arrival order: a read when no writer holds it and nobody *)
(* waits, a write when nobody holds it and nobody waits.                   *)
(***************************************************************************)
\* t holds a guard of the lock l.
holds(l, t) == t \in l.readers \cup l.writer

waiting_for(t, kind) == [task |-> t, kind |-> kind]

\* A read guard granted although a writer holds the lock.
read_ignoring_writer(l, t) ==
    [l EXCEPT !.readers = @ \cup {t}]

\* self.cache.read(): granted at once, or the task queues.
read(l, t) ==
    IF l.writer = {} /\ l.waiters = <<>>
    THEN [l EXCEPT !.readers = @ \cup {t}]
    ELSE [l EXCEPT !.waiters = Append(@, waiting_for(t, "read"))]

\* A write guard granted although readers hold the lock.
write_ignoring_readers(l, t) ==
    IF l.writer = {} /\ l.waiters = <<>>
    THEN [l EXCEPT !.writer = {t}]
    ELSE [l EXCEPT !.waiters = Append(@, waiting_for(t, "write"))]

\* self.cache.write(): granted at once, or the task queues.
write(l, t) ==
    IF l.writer = {} /\ l.readers = {} /\ l.waiters = <<>>
    THEN [l EXCEPT !.writer = {t}]
    ELSE [l EXCEPT !.waiters = Append(@, waiting_for(t, "write"))]

\* The guards the lock grants to the tasks at the head of the queue.
RECURSIVE wake(_)
wake(l) ==
    IF l.waiters = <<>> \/ l.writer # {} THEN l
    ELSE IF Head(l.waiters).kind = "read"
    THEN wake([l EXCEPT !.readers = @ \cup {Head(l.waiters).task},
                        !.waiters = Tail(@)])
    ELSE IF l.readers = {}
    THEN [l EXCEPT !.writer = {Head(l.waiters).task}, !.waiters = Tail(@)]
    ELSE l

\* The guard of t dropped at the end of a method.
drop(l, t) ==
    wake([l EXCEPT !.readers = @ \ {t}, !.writer = @ \ {t}])

\* The callers once the lock is l: who was waiting and now holds a guard is
\* inside its method.
resumed(c, l) ==
    [u \in DOMAIN c |->
        IF c[u].pc = "waiting" /\ holds(l, u)
        THEN [c[u] EXCEPT !.pc = "inside"]
        ELSE c[u]]

\* The hostnames and the addresses the callers pass: two of each.
LockKeys == {HostNames[1], HostNames[2]}

LockAddrs == {Addr(1), Addr(2)}

ReadMethods == {"has_changed", "get", "list_all"}

WriteMethods == {"update", "remove"}

\* A method is called and awaits its guard.
entered(t, method, hostname, ipv6_address, l) ==
    /\ caller[t].pc = "outside"
    /\ lock' = l
    /\ caller' = [caller EXCEPT ![t] =
                     [pc |-> IF holds(l, t) THEN "inside" ELSE "waiting",
                      method |-> method, hostname |-> hostname,
                      ipv6_address |-> ipv6_address]]
    /\ UNCHANGED <<hosts, cache, task, entry_cache, last_failed, history,
                   observed, written, args, result, zone, upsert, ledger>>

CallHasChanged(t, h, a) == entered(t, "has_changed", h, a, read(lock, t))

CallGet(t, h) == entered(t, "get", h, ZeroAddr, read(lock, t))

CallListAll(t) == entered(t, "list_all", "", ZeroAddr, read(lock, t))

CallUpdate(t, h, a) == entered(t, "update", h, a, write(lock, t))

CallRemove(t, h) == entered(t, "remove", h, ZeroAddr, write(lock, t))

\* A method that only reads returns: its guard is dropped.
ReadReturns(t) ==
    /\ caller[t].pc = "inside"
    /\ caller[t].method \in ReadMethods
    /\ lock' = drop(lock, t)
    /\ caller' = resumed([caller EXCEPT ![t] = Outside], lock')
    /\ UNCHANGED <<hosts, cache, task, entry_cache, last_failed, history,
                   observed, written, args, result, zone, upsert, ledger>>

\* update inserts and returns.
UpdateReturns(t) ==
    /\ caller[t].pc = "inside"
    /\ caller[t].method = "update"
    /\ cache' = update(cache, caller[t].hostname, caller[t].ipv6_address)
    /\ written' = noted(written, caller[t].hostname, caller[t].ipv6_address)
    /\ history' = noted(history, caller[t].hostname, "recorded")
    /\ lock' = drop(lock, t)
    /\ caller' = resumed([caller EXCEPT ![t] = Outside], lock')
    /\ UNCHANGED <<hosts, task, entry_cache, last_failed, observed, args,
                   result, zone, upsert, ledger>>

\* remove removes and returns.
RemoveReturns(t) ==
    /\ caller[t].pc = "inside"
    /\ caller[t].method = "remove"
    /\ cache' = remove(cache, caller[t].hostname)
    /\ written' = [k \in (DOMAIN written) \ {caller[t].hostname} |-> written[k]]
    /\ history' = IF caller[t].hostname \in DOMAIN history
                  THEN noted(history, caller[t].hostname, "removed")
                  ELSE history
    /\ lock' = drop(lock, t)
    /\ caller' = resumed([caller EXCEPT ![t] = Outside], lock')
    /\ UNCHANGED <<hosts, task, entry_cache, last_failed, observed, args,
                   result, zone, upsert, ledger>>

NextLock ==
    \E t \in Tasks :
        \/ \E h \in LockKeys, a \in LockAddrs : CallHasChanged(t, h, a)
        \/ \E h \in LockKeys : CallGet(t, h)
        \/ CallListAll(t)
        \/ \E h \in LockKeys, a \in LockAddrs : CallUpdate(t, h, a)
        \/ \E h \in LockKeys : CallRemove(t, h)
        \/ ReadReturns(t)
        \/ UpdateReturns(t)
        \/ RemoveReturns(t)

SpecLock == Init /\ [][NextLock]_vars

(***************************************************************************)
(* Ipv6Prefix called directly, as its unit tests call it                   *)
(***************************************************************************)
\* The largest u8: prefix_len is a u8.
MaxU8 == 255

\* ffff:ffff:ffff:ffff:ffff:ffff:ffff:ffff, 2001:db8:1234:5678:9abc:def0:a5a5:5a5a
\* and 2001:db8:1234:5600::1.
PrefixAddrs ==
    { [k \in 1..16 |-> 255],
      FromSegments(<<8193, 3512, 4660, 22136, 39612, 57072, 42405, 23130>>),
      FromSegments(<<8193, 3512, 4660, 22016, 0, 0, 0, 1>>) }

\* The interface-ID tokens: ::0, ::1, 1f, ::a1b2:c3d4:e5f6:7890, the address
\* of all ones, 1.2.3.4, 1:2:3:4:5:6 and not-an-address.
Tokens ==
    { <<":", ":", "0">>,
      <<":", ":", "1">>,
      <<"1", "f">>,
      <<":", ":", "a", "1", "b", "2", ":", "c", "3", "d", "4", ":", "e", "5", "f", "6", ":", "7", "8", "9", "0">>,
      <<"f", "f", "f", "f", ":", "f", "f", "f", "f", ":", "f", "f", "f", "f", ":", "f", "f", "f", "f", ":", "f", "f", "f", "f", ":", "f", "f", "f", "f", ":", "f", "f", "f", "f", ":", "f", "f", "f", "f">>,
      <<"1", ".", "2", ".", "3", ".", "4">>,
      <<"1", ":", "2", ":", "3", ":", "4", ":", "5", ":", "6">>,
      <<"n", "o", "t", "-", "a", "n", "-", "a", "d", "d", "r", "e", "s", "s">> }

\* The calls a caller may make.
Inputs ==
    { [addr |-> a, prefix_len |-> n, interface_id |-> i] :
          a \in PrefixAddrs, n \in 0..MaxU8, i \in Tokens }

InitIpv6 ==
    /\ hosts = <<HostMapping(1)>>
    /\ cache = cache_new
    /\ task = [t \in Tasks |-> Idle]
    /\ entry_cache = NoSnapshot
    /\ last_failed = [h \in {} |-> NoAddr]
    /\ history = [h \in {} |-> ""]
    /\ observed = [hostname |-> "", new_address |-> ZeroAddr, result |-> FALSE,
                   tick |-> 0]
    /\ written = [h \in {} |-> NoAddr]
    /\ args \in Inputs
    /\ result = NoResult
    /\ lock = Unlocked
    /\ caller = [t \in Tasks |-> Outside]
    /\ provider = [h \in {} |-> NoAddr]
    /\ accepted = {}
    /\ clean = NoPrefix
    /\ zone = NoRecords
    /\ upsert = NoCall

\* What a call of an Ipv6Prefix function leaves alone.
server == <<hosts, cache, task, entry_cache, last_failed, history, observed,
            written, lock, caller, provider, accepted, clean, zone, upsert>>

\* Ipv6Prefix::from_address(args.addr, args.prefix_len).
FromAddress ==
    /\ result.step = "none"
    /\ result' = [step |-> "from_address",
                  prefix |-> from_address(args.addr, args.prefix_len)]
    /\ UNCHANGED <<args, server>>

\* prefix.combine_with_interface_id(args.interface_id) on the prefix built.
CombineWithInterfaceId ==
    /\ result.step = "from_address"
    /\ result.prefix.ok
    /\ result' = [step |-> "combine", prefix |-> result.prefix,
                  address |-> combine_with_interface_id(result.prefix.val,
                                                        args.interface_id),
                  touched |-> touched(result.prefix.val.prefix_len,
                                      result.prefix.val.prefix_len \div 8)]
    /\ UNCHANGED <<args, server>>

\* parse_interface_id(args.interface_id).
ParseInterfaceId ==
    /\ result.step = "none"
    /\ result' = [step |-> "parse_interface_id",
                  parsed |-> parse_interface_id(args.interface_id)]
    /\ UNCHANGED <<args, server>>

NextIpv6 ==
    \/ FromAddress
    \/ CombineWithInterfaceId
    \/ ParseInterfaceId

SpecIpv6 == InitIpv6 /\ [][NextIpv6]_vars

(***************************************************************************)
(* handle_update with the guards of the StateCache: has_changed and update *)
(* take the RwLock when they are called and give it back when they return. *)
(***************************************************************************)
\* What neither handle_update nor the lock reaches.
beyond == <<args, result, caller, zone, upsert>>

\* The read guard kept by the task after has_changed returned.
guard_kept(l, t) == l

\* The guard of has_changed or update at the return: the local goes out of
\* scope.
guard_dropped(l, t) == drop(l, t)

\* state_cache.has_changed(...) is called and awaits the read guard.
HasChangedCalled(t) ==
    /\ task[t].pc = "check"
    /\ task' = [task EXCEPT ![t].pc = "has_changed"]
    /\ lock' = read(lock, t)
    /\ UNCHANGED <<hosts, cache, entry_cache, last_failed, history, observed,
                   written, beyond, ledger>>

\* has_changed has the guard, answers and returns; the loop body goes on
\* to the push or to the provider call.
HasChangedReturns(t) ==
    /\ task[t].pc = "has_changed"
    /\ holds(lock, t)
    /\ task' = [task EXCEPT ![t] = check(task[t], cache)]
    /\ lock' = guard_dropped(lock, t)
    /\ UNCHANGED <<hosts, cache, entry_cache, last_failed, history, observed,
                   written, beyond, ledger>>

\* state_cache.update(...) is called in the Ok arm and awaits the write
\* guard.
UpdateCalled(t) ==
    /\ task[t].pc = "record"
    /\ task' = [task EXCEPT ![t].pc = "update"]
    /\ lock' = write(lock, t)
    /\ UNCHANGED <<hosts, cache, entry_cache, last_failed, history, observed,
                   written, beyond, ledger>>

\* update has the guard, inserts and returns; then the push to
\* updated_hosts.
UpdateStored(t) ==
    LET r == task[t]
        hostname == hosts[r.idx].hostname
    IN  /\ r.pc = "update"
        /\ holds(lock, t)
        /\ cache' = update(cache, hostname, r.final_address)
        /\ lock' = guard_dropped(lock, t)
        /\ task' = [task EXCEPT ![t] =
                       next_host([r EXCEPT !.updated_hosts =
                           Append(@, format_entry(hostname, r.final_address))])]
        /\ last_failed' = [h \in (DOMAIN last_failed) \ {hostname} |->
                              last_failed[h]]
        /\ history' = noted(history, hostname, "recorded")
        /\ written' = noted(written, hostname, r.final_address)
        /\ UNCHANGED <<hosts, entry_cache, observed, beyond, ledger>>

\* Requests that race, the lock shown: two hosts, one request per task.
NextGuarded ==
    \E t \in Tasks :
        \/ \E q \in RaceQueries : Begin(t, q)
        \/ HasChangedCalled(t)
        \/ HasChangedReturns(t)
        \/ ProviderOk(t)
        \/ ProviderErr(t)
        \/ UpdateCalled(t)
        \/ UpdateStored(t)

SpecGuarded == InitRace /\ [][NextGuarded]_vars

(***************************************************************************)
(* CloudflareClient::update_aaaa_record (cloudflare.rs): the lookup, then  *)
(* the update of the record found or the creation of one.  The zone keeps, *)
(* per name, its AAAA records in the order the list request returns them.  *)
(***************************************************************************)
ZoneNames == {HostNames[1], HostNames[2]}

\* The id of the record a name has before the first call.
OldId(h) == CHOOSE i \in 1..2 : HostNames[i] = h

\* The zones a first call may meet: every name has no record or one.
Zones ==
    { [h \in ZoneNames |->
          IF h \in S THEN <<[id |-> OldId(h), content |-> a]>> ELSE <<>>] :
      S \in SUBSET ZoneNames, a \in CacheAddrs }

InitZone ==
    /\ hosts = <<HostMapping(1), HostMapping(2)>>
    /\ cache = cache_new
    /\ task = [t \in Tasks |-> Idle]
    /\ entry_cache = NoSnapshot
    /\ last_failed = [h \in {} |-> NoAddr]
    /\ history = [h \in {} |-> ""]
    /\ observed = [hostname |-> "", new_address |-> ZeroAddr, result |-> FALSE,
                   tick |-> 0]
    /\ written = [h \in {} |-> NoAddr]
    /\ args = NoArgs
    /\ result = NoResult
    /\ lock = Unlocked
    /\ caller = [t \in Tasks |-> Outside]
    /\ provider = [h \in {} |-> NoAddr]
    /\ accepted = {}
    /\ clean = NoPrefix
    /\ zone \in Zones
    /\ upsert = NoCall

\* What a call of update_aaaa_record leaves alone.
local == <<hosts, cache, task, entry_cache, last_failed, history, observed,
           written, args, result, lock, caller, provider, accepted, clean>>

\* The id Cloudflare gives a new record: one no record of the zone has.
RECURSIVE MaxId(_, _)
MaxId(z, names) ==
    IF names = {} THEN Cardinality(ZoneNames)
    ELSE LET h == CHOOSE n \in names : TRUE
             rest == MaxId(z, names \ {h})
         IN  IF z[h] # <<>> /\ z[h][Len(z[h])].id > rest
             THEN z[h][Len(z[h])].id ELSE rest

\* The result of find_aaaa_record: the first record of the list.
first_record(records) ==
    IF records = <<>> THEN None ELSE [ok |-> TRUE, val |-> records[1]]

\* The match of update_aaaa_record creating a record whatever was found.
matched_always_creates(call) == [call EXCEPT !.pc = "create"]

\* The match of update_aaaa_record on what find_aaaa_record returned.
matched(call) ==
    IF call.found.ok THEN [call EXCEPT !.pc = "update"]
    ELSE [call EXCEPT !.pc = "create"]

\* update_aaaa_record(hostname, addr) is called.
UpdateAaaaRecord(h, a) ==
    /\ upsert.pc = "idle"
    /\ upsert' = [pc |-> "find", hostname |-> h, addr |-> a, found |-> None,
                  returned |-> "none"]
    /\ UNCHANGED <<zone, local>>

\* find_aaaa_record returns Ok: the list request was answered.
FindAaaaRecord ==
    /\ upsert.pc = "find"
    /\ upsert' = matched([upsert EXCEPT
                              !.found = first_record(zone[upsert.hostname])])
    /\ UNCHANGED <<zone, local>>

\* update_record returns Ok: the record of that id has the new content.
UpdateRecord ==
    /\ upsert.pc = "update"
    /\ zone' = [zone EXCEPT ![upsert.hostname] =
                    [k \in DOMAIN @ |->
                        IF @[k].id = upsert.found.val.id
                        THEN [@[k] EXCEPT !.content = upsert.addr]
                        ELSE @[k]]]
    /\ upsert' = [upsert EXCEPT !.pc = "idle", !.returned = "ok"]
    /\ UNCHANGED local

\* create_record returns Ok: the zone has one more record.
CreateRecord ==
    /\ upsert.pc = "create"
    /\ zone' = [zone EXCEPT ![upsert.hostname] =
                    Append(@, [id |-> MaxId(zone, ZoneNames) + 1,
                               content |-> upsert.addr])]
    /\ upsert' = [upsert EXCEPT !.pc = "idle", !.returned = "ok"]
    /\ UNCHANGED local

\* A request of the call fails (send, the status, the body): `?` returns
\* the error and the zone is as it was.
RequestFails ==
    /\ upsert.pc \in {"find", "update", "create"}
    /\ upsert' = [upsert EXCEPT !.pc = "idle", !.returned = "err"]
    /\ UNCHANGED <<zone, local>>

\* Calls of update_aaaa_record one after another.
NextZone ==
    \/ \E h \in ZoneNames, a \in CacheAddrs : UpdateAaaaRecord(h, a)
    \/ FindAaaaRecord
    \/ UpdateRecord
    \/ CreateRecord
    \/ RequestFails

SpecZone == InitZone /\ [][NextZone]_vars

(***************************************************************************)
(* Properties                                                              *)
(***************************************************************************)
\* The address handle_update computes for hosts[i] in request r.
Candidate(r, i) ==
    combine_with_interface_id(r.prefix, hosts[i].interface_id).val

\* The entry handle_update pushes for hosts[i] once it is updated or unchanged.
Listed(r, i) == format_entry(hosts[i].hostname, Candidate(r, i))

\* The address the cache c holds for hostname h, if any.
Entry(c, h) == IF h \in DOMAIN c THEN <<c[h].ipv6_address>> ELSE <<>>

\* How often x occurs in the list v.
Occ(v, x) == Cardinality({k \in DOMAIN v : v[k] = x})

\* The request of r passed the parsing of its prefix and reached the loop.
WellFormed(r) == r.idx > 0

\* C1: for a request with a well-formed prefix, a provider call starts for a
\* host only in the step in which has_changed answered true for that host and
\* its candidate address (the cache held no entry or another address); a host
\* whose candidate equals its cached address is pushed to unchanged_hosts and
\* the step starts no provider call and writes nothing.
C1_CalledOnlyWhenChanged ==
    [][\A t \in Tasks :
         /\ (task[t].pc # "call" /\ task'[t].pc = "call") =>
               /\ task[t].pc = "check"
               /\ task'[t].idx = task[t].idx
               /\ task'[t].final_address = Candidate(task[t], task[t].idx)
               /\ Entry(cache, hosts[task[t].idx].hostname)
                      # <<Candidate(task[t], task[t].idx)>>
         /\ (/\ task[t].pc = "check"
             /\ task'[t] # task[t]
             /\ Entry(cache, hosts[task[t].idx].hostname)
                    = <<Candidate(task[t], task[t].idx)>>) =>
               /\ task'[t].pc # "call"
               /\ task'[t].unchanged_hosts =
                      Append(task[t].unchanged_hosts, Listed(task[t], task[t].idx))
               /\ task'[t].updated_hosts = task[t].updated_hosts
               /\ task'[t].failed_hosts = task[t].failed_hosts
               /\ cache' = cache
      ]_vars

\* C1 witness: a request that classified a host unchanged is now calling the
\* provider for a later host.
C1_Witness ==
    \E t \in Tasks : task[t].pc = "call" /\ task[t].unchanged_hosts # <<>>

\* C2: when the provider call for a host fails, the host is pushed to
\* failed_hosts and the step writes no cache entry; and the cache entry of a
\* host in failed_hosts is what it was when the request began (none, or the
\* old address).
C2_FailedKeepsEntry ==
    /\ [](\A t \in Tasks : \A i \in 1..Len(hosts) :
            (task[t].pc # "idle"
                /\ Occ(task[t].failed_hosts, hosts[i].hostname) > 0) =>
               Entry(cache, hosts[i].hostname)
                   = Entry(entry_cache, hosts[i].hostname))
    /\ [][\A t \in Tasks :
            (task[t].pc = "call" /\ task'[t].pc \notin {"call", "record"}) =>
               /\ task'[t].failed_hosts =
                      Append(task[t].failed_hosts, hosts[task[t].idx].hostname)
               /\ task'[t].updated_hosts = task[t].updated_hosts
               /\ task'[t].unchanged_hosts = task[t].unchanged_hosts
               /\ cache' = cache
         ]_vars

\* C2 witness: a finished request in which a host that had an old address and
\* a host that had none both failed.
C2_Witness ==
    \E t \in Tasks : \E i, j \in 1..Len(hosts) :
        /\ task[t].pc = "done"
        /\ Occ(task[t].failed_hosts, hosts[i].hostname) > 0
        /\ Occ(task[t].failed_hosts, hosts[j].hostname) > 0
        /\ Entry(cache, hosts[i].hostname) # <<>>
        /\ Entry(cache, hosts[j].hostname) = <<>>

\* C3: when requests do not overlap, a host whose provider call failed for an
\* address, and whose cache entry was not written since, is seen as changed
\* by the next request that computes that address for it: the request calls
\* the provider for the host with the same address.
C3_FailedHostRetried ==
    [][\A t \in Tasks :
         (/\ task[t].pc = "check"
          /\ task'[t] # task[t]
          /\ hosts[task[t].idx].hostname \in DOMAIN last_failed
          /\ last_failed[hosts[task[t].idx].hostname]
                 = Candidate(task[t], task[t].idx)) =>
            /\ task'[t].pc = "call"
            /\ task'[t].idx = task[t].idx
            /\ task'[t].final_address = last_failed[hosts[task[t].idx].hostname]
      ]_vars

\* C3 witness: a request is calling the provider for a host with the address
\* whose provider call failed in an earlier request.
C3_Witness ==
    \E t \in Tasks :
        /\ task[t].pc = "call"
        /\ task[t].failed_hosts = <<>>
        /\ hosts[task[t].idx].hostname \in DOMAIN last_failed
        /\ last_failed[hosts[task[t].idx].hostname] = task[t].final_address

\* C4: a request with a well-formed prefix ends with every configured host in
\* exactly one of updated_hosts, unchanged_hosts and failed_hosts, whatever
\* became of the hosts before it.
C4_EveryHostClassifiedOnce ==
    \A t \in Tasks :
        (task[t].pc = "done" /\ WellFormed(task[t])) =>
           /\ Len(task[t].updated_hosts) + Len(task[t].unchanged_hosts)
                  + Len(task[t].failed_hosts) = Len(hosts)
           /\ \A i \in 1..Len(hosts) :
                 Occ(task[t].updated_hosts, Listed(task[t], i))
                   + Occ(task[t].unchanged_hosts, Listed(task[t], i))
                   + Occ(task[t].failed_hosts, hosts[i].hostname) = 1

\* C4 witness: a finished request whose first host failed and whose later
\* hosts were still processed, one updated and one unchanged.
C4_Witness ==
    \E t \in Tasks :
        /\ task[t].pc = "done"
        /\ Len(hosts) = 3
        /\ task[t].failed_hosts = <<hosts[1].hostname>>
        /\ Len(task[t].updated_hosts) = 1
        /\ Len(task[t].unchanged_hosts) = 1

\* Whether the request of r wrote the entry of hosts[i]: the cache holds the
\* candidate and did not when the request began.
WrittenBy(r, i) ==
    /\ Entry(cache, hosts[i].hostname) = <<Candidate(r, i)>>
    /\ Entry(entry_cache, hosts[i].hostname) # <<Candidate(r, i)>>

\* C5: a request that ends with a failed host and an updated host returns
\* PartialSuccess(updated_hosts, failed_hosts), whatever unchanged_hosts
\* holds: the first list names as hostname=address exactly the hosts whose
\* entry the request wrote, the second exactly the hosts whose entry is still
\* not the candidate.
C5_PartialSuccess ==
    \A t \in Tasks :
        (/\ task[t].pc = "done"
         /\ task[t].failed_hosts # <<>>
         /\ task[t].updated_hosts # <<>>) =>
           /\ task[t].response.kind = "PartialSuccess"
           /\ task[t].response.success = task[t].updated_hosts
           /\ task[t].response.failed = task[t].failed_hosts
           /\ Len(task[t].response.success) + Len(task[t].response.failed)
                  + Len(task[t].unchanged_hosts) = Len(hosts)
           /\ \A i \in 1..Len(hosts) :
                 /\ Occ(task[t].response.success, Listed(task[t], i)) = 1
                        <=> WrittenBy(task[t], i)
                 /\ Occ(task[t].response.failed, hosts[i].hostname) = 1
                        <=> Entry(cache, hosts[i].hostname)
                                # <<Candidate(task[t], i)>>

\* C5 witness: a partial success with an unchanged host beside the updated
\* and the failed one.
C5_Witness ==
    \E t \in Tasks :
        /\ task[t].pc = "done"
        /\ task[t].response.kind = "PartialSuccess"
        /\ task[t].unchanged_hosts # <<>>

\* C6 as claimed: a request with a well-formed prefix returns Error only if
\* every host failed, none updated and none unchanged.
C6_ErrorOnlyIfAllFailed ==
    \A t \in Tasks :
        (/\ task[t].pc = "done"
         /\ WellFormed(task[t])
         /\ task[t].response.kind = "Error") =>
           /\ Len(task[t].failed_hosts) = Len(hosts)
           /\ task[t].updated_hosts = <<>>
           /\ task[t].unchanged_hosts = <<>>

\* C6 as amended: a request with a well-formed prefix returns Error, naming
\* the failed hostnames, only if at least one host failed and none was
\* updated; other hosts may be unchanged.
C6_ErrorOnlyIfFailedAndNoneUpdated ==
    \A t \in Tasks :
        (/\ task[t].pc = "done"
         /\ WellFormed(task[t])
         /\ task[t].response.kind = "Error") =>
           /\ task[t].failed_hosts # <<>>
           /\ task[t].updated_hosts = <<>>
           /\ task[t].response.msg =
                  "Failed to update: " \o join(task[t].failed_hosts, ", ")
           /\ \A i \in 1..Len(hosts) : ~WrittenBy(task[t], i)

\* C6 witness: an Error response to a request in which one host failed and
\* another was unchanged.
C6_Witness ==
    \E t \in Tasks :
        /\ task[t].pc = "done"
        /\ WellFormed(task[t])
        /\ task[t].response.kind = "Error"
        /\ task[t].unchanged_hosts # <<>>

\* C7: a request that ends with an updated host and no failed host returns
\* Good(updated_hosts): the list names exactly the hosts whose entry the
\* request wrote, and no entry of unchanged_hosts is in it.
C7_GoodOmitsUnchanged ==
    \A t \in Tasks :
        (/\ task[t].pc = "done"
         /\ task[t].updated_hosts # <<>>
         /\ task[t].failed_hosts = <<>>) =>
           /\ task[t].response.kind = "Good"
           /\ task[t].response.hosts = task[t].updated_hosts
           /\ \A i \in 1..Len(hosts) :
                 Occ(task[t].response.hosts, Listed(task[t], i)) =
                     IF WrittenBy(task[t], i) THEN 1 ELSE 0
           /\ \A k \in DOMAIN task[t].unchanged_hosts :
                 Occ(task[t].response.hosts, task[t].unchanged_hosts[k]) = 0

\* C7 witness: a Good response to a request in which a host was unchanged.
C7_Witness ==
    \E t \in Tasks :
        /\ task[t].pc = "done"
        /\ task[t].response.kind = "Good"
        /\ task[t].unchanged_hosts # <<>>
        /\ into_response(task[t].response).body
               = "good " \o join(task[t].updated_hosts, ", ")

\* C8: a request that reached the aggregation returns NoChg exactly when no
\* host was updated and none failed, and the response then lists every
\* configured host, in the configuration's order, as hostname=candidate, the
\* candidate being the address the cache holds for the host.
C8_NoChgListsEveryHost ==
    \A t \in Tasks :
        (task[t].pc = "done" /\ WellFormed(task[t])) =>
           /\ task[t].response.kind = "NoChg"
                  <=> (task[t].updated_hosts = <<>> /\ task[t].failed_hosts = <<>>)
           /\ task[t].response.kind = "NoChg" =>
                 /\ task[t].response.hosts =
                        [i \in 1..Len(hosts) |-> Listed(task[t], i)]
                 /\ \A i \in 1..Len(hosts) :
                       /\ Entry(cache, hosts[i].hostname)
                              = <<Candidate(task[t], i)>>
                       /\ Entry(entry_cache, hosts[i].hostname)
                              = <<Candidate(task[t], i)>>

\* C8 witness: a NoChg response that lists three hosts.
C8_Witness ==
    \E t \in Tasks :
        /\ task[t].pc = "done"
        /\ task[t].response.kind = "NoChg"
        /\ Len(task[t].response.hosts) = 3

\* C9: a request whose prefix parameter is no address literal stands, from
\* its first step, at the return of Error("Invalid IPv6 address"), rendered
\* 911: it never reaches the loop or a provider call, and the cache is what
\* it was when the request began.
C9_MalformedPrefixAborts ==
    \A t \in Tasks :
        (task[t].pc # "idle" /\ ~parse_ipv6(task[t].params.prefix).ok) =>
           /\ task[t].pc = "done"
           /\ task[t].idx = 0
           /\ task[t].response.kind = "Error"
           /\ into_response(task[t].response) =
                  [status |-> 200, body |-> "911 Invalid IPv6 address"]
           /\ task[t].updated_hosts = <<>>
           /\ task[t].unchanged_hosts = <<>>
           /\ task[t].failed_hosts = <<>>
           /\ cache = entry_cache

\* C9 witness: a request with a malformed prefix was answered while the cache
\* holds entries.
C9_Witness ==
    \E t \in Tasks :
        /\ task[t].pc = "done"
        /\ ~WellFormed(task[t])
        /\ DOMAIN cache # {}

\* C10: has_changed answers true for every address when the cache holds no
\* entry for the hostname: for a hostname never written and for one removed
\* since it was last written, whatever was done to the other hostnames.
C10_AbsentAlwaysChanged ==
    \A h \in CacheKeys :
        (h \notin DOMAIN history \/ history[h] = "removed") =>
           \A a \in CacheAddrs : has_changed(cache, h, a)

\* C10 witness: has_changed answered true for a hostname removed since it was
\* written, with an address that another hostname's entry holds.
C10_Witness ==
    \E h \in CacheKeys :
        /\ observed.hostname # ""
        /\ observed.hostname # h
        /\ observed.result
        /\ observed.hostname \in DOMAIN history
        /\ history[observed.hostname] = "removed"
        /\ Entry(cache, h) = <<observed.new_address>>

\* C11: for a hostname whose last write was update(h, a), has_changed(h, a)
\* is false and has_changed(h, a2) is true for every other address a2; this
\* holds again for the address of each later update of h.
C11_UpdateThenHasChanged ==
    \A h \in DOMAIN written :
        /\ ~has_changed(cache, h, written[h])
        /\ \A a2 \in CacheAddrs \ {written[h]} : has_changed(cache, h, a2)

\* C11 witness: has_changed answered false for a hostname and an address, and
\* a later update has replaced the hostname's entry by another address, while
\* another hostname holds an entry too.
C11_Witness ==
    \E h \in DOMAIN written \ {observed.hostname} :
        /\ observed.hostname \in DOMAIN written
        /\ ~observed.result
        /\ written[observed.hostname] # observed.new_address

\* C12: a has_changed call leaves the whole map as it was, whether it answers
\* true or false.
C12_HasChangedNeverMutates ==
    [][observed' # observed => cache' = cache]_vars

\* C12 witness: has_changed has answered true for a hostname that has an
\* entry, in a cache of two entries.
C12_Witness ==
    /\ observed.hostname \in DOMAIN cache
    /\ observed.result
    /\ cache[observed.hostname].ipv6_address # observed.new_address
    /\ Cardinality(DOMAIN cache) = 2

\* Bit pos of the address a, bit 0 being the most significant.
Bit(a, pos) == (a[(pos \div 8) + 1] \div Pow2(7 - (pos % 8))) % 2

\* address is prefix on the bits before prefix.prefix_len and iid on the bits
\* from there on, byte for byte except at a boundary inside a byte.
Spliced(prefix, iid, address) ==
    /\ address.ok <=> iid.ok
    /\ address.ok =>
          /\ \A pos \in 0..127 :
                Bit(address.val, pos) =
                    IF pos < prefix.prefix_len THEN Bit(prefix.addr, pos)
                    ELSE Bit(iid.val, pos)
          /\ \A k \in 1..16 :
                (prefix.prefix_len % 8 = 0
                    \/ k # (prefix.prefix_len \div 8) + 1) =>
                   address.val[k] =
                       IF k <= prefix.prefix_len \div 8 THEN prefix.addr[k]
                       ELSE iid.val[k]

\* C13: for a prefix built by from_address with a length of 0..128 and a
\* token that parses, combine_with_interface_id returns the address whose bits
\* before the length are the prefix's and whose bits from the length on are
\* the parsed interface identifier's; every byte but a boundary byte inside
\* the length is a straight copy of one of the two.
C13_CombineSplicesBits ==
    result.step = "combine" =>
        Spliced(result.prefix.val, parse_interface_id(args.interface_id),
                result.address)

\* C13 witness: the prefix of length 61 of the address of all ones was
\* combined with ::1.
C13_Witness ==
    /\ result.step = "combine"
    /\ args.prefix_len = 61
    /\ args.addr = [k \in 1..16 |-> 255]
    /\ args.interface_id = <<":", ":", "1">>
    /\ result.address.ok

\* C14: the network address from_address stores has every bit from the prefix
\* length on zero and every bit before it equal to the input address's bit.
C14_FromAddressNormalises ==
    (result.step # "none" /\ result.step # "parse_interface_id"
        /\ result.prefix.ok) =>
       /\ result.prefix.val.prefix_len = args.prefix_len
       /\ \A pos \in 0..127 :
             Bit(result.prefix.val.addr, pos) =
                 IF pos < args.prefix_len THEN Bit(args.addr, pos) ELSE 0

\* C14 witness: from_address was given the address of all ones and length 61.
C14_Witness ==
    /\ result.step = "from_address"
    /\ args.prefix_len = 61
    /\ result.prefix.ok
    /\ result.prefix.val.addr # args.addr
    /\ result.prefix.val.addr[8] = 248

\* C15: from_address fails, with Ipv6Parse, for every prefix length above 128
\* and succeeds for every length from 0 to 128.
C15_PrefixLengthValidation ==
    result.step = "from_address" =>
       /\ result.prefix.ok <=> args.prefix_len <= 128
       /\ ~result.prefix.ok => result.prefix.err = "Ipv6Parse"

\* C15 witness: from_address has refused the length 129.
C15_Witness ==
    /\ result.step = "from_address"
    /\ args.prefix_len = 129
    /\ ~result.prefix.ok

\* C16: combining the prefix from_address built with the interface-ID ::0
\* gives back the prefix's network address.
C16_RoundTripZero ==
    (result.step = "combine" /\ args.interface_id = <<":", ":", "0">>) =>
       /\ result.address.ok
       /\ result.address.val = result.prefix.val.addr

\* C16 witness: a prefix of length 61 that differs from the address it was
\* built from was combined with ::0.
C16_Witness ==
    /\ result.step = "combine"
    /\ args.interface_id = <<":", ":", "0">>
    /\ args.prefix_len = 61
    /\ result.address.ok
    /\ result.address.val # args.addr
    /\ result.address.val # ZeroAddr

\* The three forms parse_interface_id tries for a token.
Forms(iid) ==
    <<parse_ipv6(iid), parse_ipv6(DocPlaceholder \o iid),
      parse_ipv6(MappedPlaceholder \o iid)>>

\* r is the first of the forms f that parsed, or InvalidInterfaceId.
FirstOf(f, r) ==
    /\ r.ok <=> (f[1].ok \/ f[2].ok \/ f[3].ok)
    /\ ~r.ok => r.err = "InvalidInterfaceId"
    /\ f[1].ok => r.val = f[1].val
    /\ (~f[1].ok /\ f[2].ok) => r.val = f[2].val
    /\ (~f[1].ok /\ ~f[2].ok /\ f[3].ok) => r.val = f[3].val

\* C17: parse_interface_id returns the first that parses of the token as an
\* address literal, the token after 2001:db8:: and the token after ::ffff:,
\* and fails with InvalidInterfaceId exactly when none parses.
C17_FirstFormThatParses ==
    result.step = "parse_interface_id" =>
        FirstOf(Forms(args.interface_id), result.parsed)

\* C17 witness: the token 1.2.3.4, which parses after both placeholders, gave
\* 2001:db8::102:304.
C17_Witness ==
    /\ result.step = "parse_interface_id"
    /\ args.interface_id = <<"1", ".", "2", ".", "3", ".", "4">>
    /\ result.parsed.ok
    /\ result.parsed.val = FromSegments(<<8193, 3512, 0, 0, 0, 0, 258, 772>>)

\* http is the outcome of request r with status 200 and a body that begins
\* with the word of the outcome.
Rendered(r, http) ==
    /\ http.status = 200
    /\ r.response.kind \in {"Good", "NoChg", "PartialSuccess", "Error"}
    /\ r.response.kind = "Good" =>
          http.body = "good " \o join(r.updated_hosts, ", ")
    /\ r.response.kind = "NoChg" =>
          http.body = "nochg " \o join(r.unchanged_hosts, ", ")
    /\ r.response.kind = "PartialSuccess" =>
          http.body = "partial success: " \o join(r.updated_hosts, ", ")
                          \o " | failed: " \o join(r.failed_hosts, ", ")
    /\ r.response.kind = "Error" =>
          http.body = "911 " \o (IF WellFormed(r)
                                 THEN "Failed to update: "
                                          \o join(r.failed_hosts, ", ")
                                 ELSE "Invalid IPv6 address")

\* C18: whatever the outcome of an update request (Good, NoChg,
\* PartialSuccess, Error, the error of a malformed prefix), the response has
\* status 200 and a body beginning with "good ", "nochg ",
\* "partial success: " or "911 ".
C18_AlwaysStatus200 ==
    \A t \in Tasks :
        task[t].pc = "done" =>
            Rendered(task[t], into_response(task[t].response))

\* C18 witness: a request in which the only host failed is answered with
\* status 200 and the body 911 Failed to update: nas.example.com.
C18_Witness ==
    \E t \in Tasks :
        /\ task[t].pc = "done"
        /\ task[t].failed_hosts = <<"nas.example.com">>
        /\ into_response(task[t].response) =
               [status |-> 200,
                body |-> "911 Failed to update: nas.example.com"]

\* C19: when requests race to update a hostname with different addresses, the
\* hostname's entry is at every moment, and so once they have completed, the
\* address of the update call executed last, which is the candidate of one of
\* the requests that list the host as updated; and an update call changes the
\* entry of its own hostname only.
C19_LastWriteWins ==
    /\ [](/\ DOMAIN cache = DOMAIN written
          /\ \A i \in 1..Len(hosts) :
                hosts[i].hostname \in DOMAIN cache =>
                   /\ cache[hosts[i].hostname].ipv6_address
                          = written[hosts[i].hostname]
                   /\ \E t \in Tasks :
                         /\ Occ(task[t].updated_hosts, Listed(task[t], i)) = 1
                         /\ cache[hosts[i].hostname].ipv6_address
                                = Candidate(task[t], i))
    /\ [][\A t \in Tasks :
            (task[t].pc = "record" /\ task'[t].pc # "record") =>
               /\ Entry(cache', hosts[task[t].idx].hostname)
                      = <<task[t].final_address>>
               /\ \A h \in (DOMAIN cache \cup DOMAIN cache')
                               \ {hosts[task[t].idx].hostname} :
                     Entry(cache', h) = Entry(cache, h)
         ]_vars

\* C19 witness: two requests have completed, both having updated both hosts
\* with different addresses; the first host's entry is the one request's
\* address and the second host's entry the other's.
C19_Witness ==
    \E t1, t2 \in Tasks :
        /\ task[t1].pc = "done"
        /\ task[t2].pc = "done"
        /\ Len(task[t1].updated_hosts) = 2
        /\ Len(task[t2].updated_hosts) = 2
        /\ task[t1].prefix # task[t2].prefix
        /\ Entry(cache, hosts[1].hostname) = <<Candidate(task[t1], 1)>>
        /\ Entry(cache, hosts[2].hostname) = <<Candidate(task[t2], 2)>>

\* C20: while a task is inside update or remove, holding the write guard, no
\* other task is inside any method of the cache; tasks inside has_changed,
\* get or list_all hold read guards and may be several.
C20_ReaderWriterExclusive ==
    \A t \in Tasks :
        /\ caller[t].pc = "inside" <=> holds(lock, t)
        /\ (caller[t].pc = "inside" /\ caller[t].method \in WriteMethods) =>
              /\ lock.writer = {t}
              /\ \A u \in Tasks \ {t} : caller[u].pc # "inside"
        /\ (caller[t].pc = "inside" /\ caller[t].method \in ReadMethods) =>
              /\ t \in lock.readers
              /\ lock.writer = {}

\* C20 witness: two tasks are inside has_changed at the same time.
C20_Witness ==
    \E t, u \in Tasks :
        /\ t # u
        /\ caller[t].pc = "inside"
        /\ caller[t].method = "has_changed"
        /\ caller[u].pc = "inside"
        /\ caller[u].method = "has_changed"

(***************************************************************************)
(* C21: a provider call that does not respond is bounded by a timeout and  *)
(* then counts as a provider failure, so the request is answered even when *)
(* the provider never answers: a task that awaits the provider eventually  *)
(* has its response.                                                       *)
(***************************************************************************)
C21_SilentProviderCallEnds ==
    \A t \in Tasks : (task[t].pc = "call") ~> (task[t].pc = "done")

(***************************************************************************)
(* C22: provided every provider call returns, every request gets its       *)
(* response, and exactly one: the task reaches the return of handle_update *)
(* with a response and ends there; no request ends anywhere else; and once *)
(* the response is sent the server takes the next request.                 *)
(***************************************************************************)
C22_EveryRequestAnswered ==
    /\ \A t \in Tasks : (task[t].pc # "idle") ~> (task[t].pc = "done")
    /\ \A t \in Tasks : (task[t].pc = "done") ~> (task[t].pc = "idle")
    /\ [](\A t \in Tasks :
            /\ task[t].pc \in {"idle", "check", "call", "record", "done"}
            /\ task[t].pc = "done" <=> task[t].response # NoResponse
            /\ AllIdle => \A q \in Queries : ENABLED Begin(t, q))
    /\ [][\A t \in Tasks :
            task[t].pc = "done" => task'[t] \in {task[t], Idle}]_vars

\* C22 witness: a request is answered with an error after a provider call
\* failed, and a request before it was answered too.
C22_Witness ==
    \E t \in Tasks :
        /\ task[t].pc = "done"
        /\ task[t].failed_hosts # <<>>
        /\ task[t].response.kind = "Error"
        /\ clean # NoPrefix

(***************************************************************************)
(* C23: update_aaaa_record is an upsert.  When the lookup finds a record   *)
(* the call changes that record's content and the zone gets no record;     *)
(* when it finds none the call creates one.  So, calls made one after      *)
(* another on a zone where every name has at most one record, a name never *)
(* has two records, and after a call that returned Ok the name has exactly *)
(* one record, with the address of that call.                              *)
(***************************************************************************)
C23_UpsertKeepsOneRecord ==
    /\ [](\A h \in ZoneNames : Len(zone[h]) <= 1)
    /\ []((upsert.pc = "idle" /\ upsert.returned = "ok") =>
              /\ Len(zone[upsert.hostname]) = 1
              /\ zone[upsert.hostname][1].content = upsert.addr)
    /\ [][\A h \in ZoneNames :
            /\ Len(zone'[h]) >= Len(zone[h])
            /\ Len(zone'[h]) > Len(zone[h]) =>
                   /\ upsert.pc = "create"
                   /\ ~upsert.found.ok
                   /\ zone[h] = <<>>
            /\ (zone[h] # <<>> /\ zone'[h] # zone[h]) =>
                   /\ upsert.pc = "update"
                   /\ upsert.found.ok
                   /\ Len(zone'[h]) = Len(zone[h])
                   /\ zone'[h][1].id = zone[h][1].id]_vars

\* C23 witness: two calls for a name returned Ok, the first created its
\* record and the second changed that record; the other name's record,
\* there from the start, has been changed too.
C23_Witness ==
    \E h, g \in ZoneNames :
        /\ upsert.pc = "idle"
        /\ upsert.returned = "ok"
        /\ upsert.hostname = h
        /\ Len(zone[h]) = 1
        /\ zone[h][1].id > Cardinality(ZoneNames)
        /\ upsert.found.ok
        /\ upsert.found.val.id = zone[h][1].id
        /\ upsert.found.val.content # upsert.addr
        /\ g # h
        /\ Len(zone[g]) = 1
        /\ zone[g][1].id = OldId(g)

(***************************************************************************)
(* C24: the update path never deletes from the cache.  Over any sequence   *)
(* of requests the set of hostnames with an entry only grows; an entry is  *)
(* created or overwritten only by the Ok arm of a host's provider call,    *)
(* which leaves the address of that call in it.                            *)
(***************************************************************************)
C24_CacheOnlyGrows ==
    [][/\ DOMAIN cache \subseteq DOMAIN cache'
       /\ \A h \in DOMAIN cache' :
              Entry(cache', h) # Entry(cache, h) =>
                  \E t \in Tasks :
                      /\ task[t].pc = "record"
                      /\ hosts[task[t].idx].hostname = h
                      /\ task'[t].pc # "record"
                      /\ cache'[h].ipv6_address = task[t].final_address]_vars

\* C24 witness: in one request an entry that was there is overwritten and
\* an entry that was not there is created.
C24_Witness ==
    /\ entry_cache # NoSnapshot
    /\ \E h, g \in DOMAIN cache :
           /\ h \in DOMAIN entry_cache
           /\ cache[h] # entry_cache[h]
           /\ g \notin DOMAIN entry_cache

\* The entries of list are entries of names, in the order of names, and
\* none of a host at or after index upto.
InOrder(list, names, upto) ==
    /\ \A j \in DOMAIN list : \E a \in 1..(upto - 1) : list[j] = names[a]
    /\ \A j, k \in DOMAIN list :
           j < k => \E a, b \in DOMAIN names :
                        a < b /\ list[j] = names[a] /\ list[k] = names[b]

\* The lists of request r against the configuration: hostnames for the
\* failed hosts, entries for the others; upto is the first host not done.
ListsInOrder(r, hostnames, entries, upto) ==
    /\ InOrder(r.failed_hosts, hostnames, upto)
    /\ InOrder(r.updated_hosts, entries, upto)
    /\ InOrder(r.unchanged_hosts, entries, upto)
    /\ Len(r.failed_hosts) + Len(r.updated_hosts) + Len(r.unchanged_hosts)
           = upto - 1

(***************************************************************************)
(* C25: hosts are processed in configuration order.  While a request is at *)
(* host idx, exactly the hosts before idx are in its lists; and the        *)
(* entries of updated_hosts, of unchanged_hosts and of failed_hosts stand  *)
(* in the order the hosts have in the configuration.                       *)
(***************************************************************************)
C25_ListsInConfigurationOrder ==
    \A t \in Tasks :
        WellFormed(task[t]) =>
            ListsInOrder(task[t],
                         [i \in DOMAIN hosts |-> hosts[i].hostname],
                         [i \in DOMAIN hosts |-> Listed(task[t], i)],
                         IF task[t].pc = "done" THEN Len(hosts) + 1
                         ELSE task[t].idx)

\* C25 witness: a request is answered with two hosts in one list and a
\* third in another.
C25_Witness ==
    \E t \in Tasks :
        /\ task[t].pc = "done"
        /\ Len(task[t].unchanged_hosts) = 2
        /\ Len(task[t].failed_hosts) = 1

(***************************************************************************)
(* C26: update(h, a) changes the entry of h and nothing else.  When a call *)
(* of update returns, h has the entry a, and every other hostname has the  *)
(* entry it had, or none if it had none.                                   *)
(***************************************************************************)
C26_UpdateChangesOneEntry ==
    [][\A t \in Tasks :
          (/\ caller[t].pc = "inside"
           /\ caller[t].method = "update"
           /\ caller'[t].pc # "inside") =>
              /\ Entry(cache', caller[t].hostname) = <<caller[t].ipv6_address>>
              /\ \A g \in (DOMAIN cache \cup DOMAIN cache')
                            \ {caller[t].hostname} :
                     Entry(cache', g) = Entry(cache, g)]_vars

\* C26 witness: update has returned for two hostnames, which hold different
\* addresses.
C26_Witness ==
    \E h, g \in DOMAIN cache :
        /\ h # g
        /\ cache[h] # cache[g]
        /\ written[h] = cache[h].ipv6_address
        /\ written[g] = cache[g].ipv6_address

(***************************************************************************)
(* C27: the cache is written only after the provider succeeded.  Whatever  *)
(* the interleaving of the requests, every entry (h, a) of the cache was   *)
(* preceded by a call update_aaaa_record(h, a) that returned Ok; so a host *)
(* is listed as unchanged only with an address the provider once accepted  *)
(* for its hostname.                                                       *)
(***************************************************************************)
C27_CachedOnlyAfterProviderOk ==
    /\ \A h \in DOMAIN cache : <<h, cache[h].ipv6_address>> \in accepted
    /\ \A t \in Tasks, i \in DOMAIN hosts :
           (/\ WellFormed(task[t])
            /\ Occ(task[t].unchanged_hosts, Listed(task[t], i)) > 0) =>
               <<hosts[i].hostname, Candidate(task[t], i)>> \in accepted

\* C27 witness: the provider accepted two addresses for a hostname in
\* requests that overlap, both requests are still at work, one of the
\* addresses is cached and the other is about to be.
C27_Witness ==
    \E t \in Tasks, h \in DOMAIN cache :
        /\ Cardinality({p \in accepted : p[1] = h}) = 2
        /\ task[t].pc = "record"
        /\ hosts[task[t].idx].hostname = h
        /\ task[t].final_address # cache[h].ipv6_address
        /\ \A u \in Tasks : task[u].pc \notin {"idle", "done"}

\* No request is in flight: every task is idle or has its response.
Quiet == \A t \in Tasks : task[t].pc \in {"idle", "done"}

C29_RepeatedRequestIsNoChg ==
    \A t \in Tasks :
        (WellFormed(task[t]) /\ task[t].prefix = clean) =>
            /\ task[t].pc \notin {"call", "record"}
            /\ task[t].updated_hosts = <<>>
            /\ task[t].failed_hosts = <<>>
            /\ cache = entry_cache
            /\ \A i \in DOMAIN hosts : i < task[t].idx =>
                   cache[hosts[i].hostname].ipv6_address
                       = Candidate(task[t], i)
            /\ task[t].pc = "done" =>
                   task[t].response
                       = NoChg([i \in DOMAIN hosts |-> Listed(task[t], i)])

\* C29 witness: the request after a request without a failed host has its
\* prefix again and is answered, with more than one host configured.
C29_Witness ==
    \E t \in Tasks :
        /\ WellFormed(task[t])
        /\ task[t].prefix = clean
        /\ task[t].pc = "done"
        /\ task[t].response.kind = "NoChg"
        /\ Len(hosts) > 1

(***************************************************************************)
(* C30: no guard of the cache is held while a provider call is             *)
(* outstanding.  A task that awaits update_aaaa_record holds no guard and  *)
(* waits for none: the read guard of has_changed was given back before the *)
(* call started and the write guard of update is asked for after it        *)
(* returned.  Only tasks inside has_changed or update hold the lock, so a  *)
(* task that calls one of them while every other task is outside both gets *)
(* its guard at once, however long the provider calls of the others last.  *)
(***************************************************************************)
C30_NoGuardDuringProviderCall ==
    \A t \in Tasks :
        /\ task[t].pc = "call" =>
               /\ ~holds(lock, t)
               /\ \A k \in DOMAIN lock.waiters : lock.waiters[k].task # t
        /\ holds(lock, t) => task[t].pc \in {"has_changed", "update"}
        /\ (/\ task[t].pc \in {"has_changed", "update"}
            /\ \A u \in Tasks \ {t} :
                   task[u].pc \notin {"has_changed", "update"}) =>
               holds(lock, t)

\* C30 witness: while a task awaits the provider, another task is inside
\* update with the write guard.
C30_Witness ==
    \E t, u \in Tasks :
        /\ task[t].pc = "call"
        /\ task[u].pc = "update"
        /\ lock.writer = {u}

\* The bits the user wrote in a token that is no address literal of its own:
\* the token read as the low-order groups of an address, nothing before it.
WrittenBits(iid) == parse_ipv6(<<":", ":">> \o iid)

\* address has, from bit `from` on, no bit set that user has not.
OnlyWritten(address, user, from) ==
    /\ user.ok
    /\ \A pos \in from..127 :
          Bit(address, pos) = 1 => Bit(user.val, pos) = 1

\* C31: when the token is accepted only after a placeholder, every bit of the
\* combined address at a position from the prefix length on is a bit the user
\* wrote in the token or zero, for every prefix length 0..128: no bit of
\* 2001:db8:: or ::ffff: shows in the address.
C31_NoPlaceholderBits ==
    (/\ result.step = "combine"
     /\ ~parse_ipv6(args.interface_id).ok
     /\ result.address.ok) =>
        OnlyWritten(result.address.val, WrittenBits(args.interface_id),
                    args.prefix_len)

(***************************************************************************)
(* The server started on any configuration Config::from_file accepts       *)
(***************************************************************************)
\* The host lists of one or two hosts whose interface-ID is any of the tokens.
TokenFiles ==
    { [i \in 1..n |-> [hostname |-> HostNames[i], interface_id |-> tok[i]]] :
          n \in 1..2, tok \in [1..2 -> Tokens] }

\* create_server on a configuration that passed Config::validate.
InitValidated ==
    /\ hosts \in TokenFiles
    /\ validate(hosts)
    /\ cache = cache_new
    /\ task = [t \in Tasks |-> Idle]
    /\ entry_cache = NoSnapshot
    /\ last_failed = [h \in {} |-> NoAddr]
    /\ history = [h \in {} |-> ""]
    /\ observed = [hostname |-> "", new_address |-> ZeroAddr, result |-> FALSE,
                   tick |-> 0]
    /\ written = [h \in {} |-> NoAddr]
    /\ args = NoArgs
    /\ result = NoResult
    /\ lock = Unlocked
    /\ caller = [t \in Tasks |-> Outside]
    /\ provider = [h \in {} |-> NoAddr]
    /\ accepted = {}
    /\ clean = NoPrefix
    /\ zone = NoRecords
    /\ upsert = NoCall

SpecValidated == InitValidated /\ [][NextSeq]_vars

\* C32: every interface-ID of a configuration that passed validation is
\* accepted by parse_interface_id, and handle_update adds a hostname to
\* failed_hosts only when update_aaaa_record returned Err for it, never
\* because the address could not be combined.
C32_FailedOnlyByProvider ==
    /\ [](\A i \in 1..Len(hosts) :
            parse_interface_id(hosts[i].interface_id).ok)
    /\ [][\A t \in Tasks :
            (task'[t].pc # "idle"
                /\ task'[t].failed_hosts # task[t].failed_hosts) =>
               /\ task[t].pc = "call"
               /\ task'[t].failed_hosts =
                      Append(task[t].failed_hosts,
                             hosts[task[t].idx].hostname)
               /\ last_failed'[hosts[task[t].idx].hostname] =
                      task[t].final_address]_vars

\* C32 witness: with the bare token 1f configured for the second host, a
\* request ended with the first host failed and the second updated.
C32_Witness ==
    /\ Len(hosts) = 2
    /\ hosts[2].interface_id = <<"1", "f">>
    /\ ~parse_ipv6(hosts[2].interface_id).ok
    /\ \E t \in Tasks :
          /\ task[t].pc = "done"
          /\ task[t].failed_hosts = <<hosts[1].hostname>>
          /\ Len(task[t].updated_hosts) = 1

\* C33: for every prefix from_address built, the lengths 0, 121..127 and 128
\* among them, combine_with_interface_id reads and writes no byte outside
\* the indices 0..15 and fails only when the token does not parse; at the
\* length 128 its result is the prefix's address, at the length 0 it is the
\* parsed interface identifier.
C33_DefinedOnEveryLength ==
    result.step = "combine" =>
       /\ result.touched \subseteq 0..15
       /\ result.address.ok <=> parse_interface_id(args.interface_id).ok
       /\ (result.address.ok /\ args.prefix_len = 128) =>
              result.address.val = result.prefix.val.addr
       /\ (result.address.ok /\ args.prefix_len = 0) =>
              result.address.val = parse_interface_id(args.interface_id).val

\* C33 witness: the prefix of length 128 of 2001:db8:1234:5600::1 was
\* combined with ::a1b2:c3d4:e5f6:7890 and gave 2001:db8:1234:5600::1.
C33_Witness ==
    /\ result.step = "combine"
    /\ args.prefix_len = 128
    /\ result.touched = 0..15
    /\ result.address.ok
    /\ result.address.val =
          FromSegments(<<8193, 3512, 4660, 22016, 0, 0, 0, 1>>)
    /\ parse_interface_id(args.interface_id).val =
          FromSegments(<<0, 0, 0, 0, 41394, 50132, 58870, 30864>>)

====
